---------------------------- MODULE Spec2Model ----------------------------
(***************************************************************************)
(* Model of tiles.py (region-search-tiledb): the accession registry, the   *)
(* region binner, the ingestion loop and the bounded overlap query.        *)
(***************************************************************************)
EXTENDS Integers, Sequences, FiniteSets, TLC

VARIABLES
    current_index,         \* registry closure: next index to hand out
    accession_to_index,    \* registry closure: forward dict
    index_to_accession,    \* registry closure: reverse dict
    disk,                  \* JSON files written by save_maps, by file name
    ret,                   \* the last registry call and what it returned
    first_index,           \* history: first index find_index returned per accession (this process)
    saved,                 \* history: the in-memory pair at the last save_maps, per database
    store,                 \* the sparse array: cells in write order
    run,                   \* the ingestion run (load) in progress
    query,                 \* the last query call and what it returned
    filt,                  \* the last filter_results call and what it returned
    binned                 \* the last get_data_for_region call and what it returned

vars == <<current_index, accession_to_index, index_to_accession, disk, ret,
          first_index, saved, store, run, query, filt, binned>>

regVars == <<current_index, accession_to_index, index_to_accession>>

(***************************************************************************)
(* Program constants.                                                      *)
(***************************************************************************)
FILE_INDEX_START == 0

GAP == 1000

(***************************************************************************)
(* Bounds of the model.                                                    *)
(***************************************************************************)
NumAccessions == 2

MaxIndex == 3

AccessionNames == <<"ENCFF001", "ENCFF002", "ENCFF003", "ENCFF004">>

Accessions == {AccessionNames[n] : n \in 1..NumAccessions}

Databases == {"regions"}

Indices == FILE_INDEX_START..(FILE_INDEX_START + MaxIndex)

Max(x, y) == IF x >= y THEN x ELSE y

Min(x, y) == IF x <= y THEN x ELSE y

(***************************************************************************)
(* Python dicts.  A key keeps its Python type: the int 0 and the str "0"   *)
(* are different keys.  A dict is a function on its set of keys.           *)
(***************************************************************************)
IntKey(i) == <<"int", i, "">>

StrKey(s) == <<"str", 0, s>>

EmptyDict == [k \in {} |-> 0]

Put(d, k, v) == [x \in (DOMAIN d) \cup {k} |-> IF x = k THEN v ELSE d[x]]

None == "None"

Get(d, k) == IF k \in DOMAIN d THEN d[k] ELSE None

(***************************************************************************)
(* JSON.  An object's keys are strings: json.dump writes an int key as its *)
(* decimal text, json.load gives every key back as a str.                  *)
(***************************************************************************)
JsonKey(k) == IF k[1] = "int" THEN ToString(k[2]) ELSE k[3]

json_dump(map_) ==
    [s \in {JsonKey(k) : k \in DOMAIN map_} |->
        map_[CHOOSE k \in DOMAIN map_ : JsonKey(k) = s]]

json_load(doc) == [k \in {StrKey(s) : s \in DOMAIN doc} |-> doc[k[3]]]

\* int(k) of a str key: the integer whose decimal text it is.
PyInt(k) == IntKey(CHOOSE i \in Indices : ToString(i) = k[3])

save_map_to_json_file(map_, name, d) == Put(d, name, json_dump(map_))

\* Variant: the key_to_int conversion is left out.
load_map_keeps_str_keys(name, key_to_int, d) == json_load(d[name])

load_map_from_json_file(name, key_to_int, d) ==
    LET map_ == json_load(d[name])
    IN  IF key_to_int
        THEN [k \in {PyInt(s) : s \in DOMAIN map_} |->
                 map_[CHOOSE s \in DOMAIN map_ : PyInt(s) = k]]
        ELSE map_

AToIFile(database) == database \o "_a_to_i.json"

IToAFile(database) == database \o "_i_to_a.json"

(***************************************************************************)
(* The registry closure of get_find_index_and_find_file_maps.              *)
(***************************************************************************)
NewRegistry ==
    [current_index |-> FILE_INDEX_START,
     accession_to_index |-> EmptyDict,
     index_to_accession |-> EmptyDict]

Registry ==
    [current_index |-> current_index,
     accession_to_index |-> accession_to_index,
     index_to_accession |-> index_to_accession]

\* The registry after find_index(accession), with the value returned.
find_index(r, accession) ==
    LET k == StrKey(accession)
    IN  IF k \notin DOMAIN r.accession_to_index
        THEN LET a2i == Put(r.accession_to_index, k, r.current_index)
                 i2a == Put(r.index_to_accession, IntKey(r.current_index), accession)
             IN  [current_index |-> r.current_index + 1,
                  accession_to_index |-> a2i,
                  index_to_accession |-> i2a,
                  val |-> a2i[k]]
        ELSE [current_index |-> r.current_index,
              accession_to_index |-> r.accession_to_index,
              index_to_accession |-> r.index_to_accession,
              val |-> r.accession_to_index[k]]

find_file(i2a, index) == Get(i2a, IntKey(index))

\* find_index stays within the model's index range.
CanFindIndex(accession) ==
    \/ StrKey(accession) \in DOMAIN accession_to_index
    \/ current_index < FILE_INDEX_START + MaxIndex

FindIndex(accession) ==
    /\ CanFindIndex(accession)
    /\ LET r == find_index(Registry, accession)
       IN  /\ current_index' = r.current_index
           /\ accession_to_index' = r.accession_to_index
           /\ index_to_accession' = r.index_to_accession
           /\ ret' = [op |-> "find_index", arg |-> accession, val |-> r.val]
           /\ first_index' = IF accession \in DOMAIN first_index
                             THEN first_index
                             ELSE Put(first_index, accession, r.val)
    /\ UNCHANGED <<disk, saved, store, run, query, filt, binned>>

FindFile(index) ==
    /\ ret' = [op |-> "find_file", arg |-> index,
               val |-> find_file(index_to_accession, index)]
    /\ UNCHANGED <<regVars, disk, first_index, saved, store, run, query, filt, binned>>

SaveMaps(database) ==
    /\ disk' = save_map_to_json_file(index_to_accession, IToAFile(database),
                   save_map_to_json_file(accession_to_index, AToIFile(database), disk))
    /\ saved' = Put(saved, database, <<accession_to_index, index_to_accession>>)
    /\ ret' = [op |-> "save_maps", arg |-> database, val |-> None]
    /\ UNCHANGED <<regVars, first_index, store, run, query, filt, binned>>

\* open() of a file that was never saved raises before anything is assigned.
LoadMaps(database) ==
    /\ IF AToIFile(database) \in DOMAIN disk /\ IToAFile(database) \in DOMAIN disk
       THEN /\ accession_to_index' =
                   load_map_from_json_file(AToIFile(database), FALSE, disk)
            /\ index_to_accession' =
                   load_map_from_json_file(IToAFile(database), TRUE, disk)
            /\ ret' = [op |-> "load_maps", arg |-> database, val |-> None]
       ELSE /\ UNCHANGED <<accession_to_index, index_to_accession>>
            /\ ret' = [op |-> "load_maps", arg |-> database, val |-> "FileNotFoundError"]
    /\ UNCHANGED <<current_index, disk, first_index, saved, store, run, query, filt, binned>>

GetMaps ==
    /\ ret' = [op |-> "get_maps", arg |-> None,
               val |-> <<accession_to_index, index_to_accession>>]
    /\ UNCHANGED <<regVars, disk, first_index, saved, store, run, query, filt, binned>>

\* The pairs a caller hands to set_maps: the maps of some registry, a forward
\* map and its inverse.
ForwardMaps ==
    UNION {{f \in [{StrKey(a) : a \in S} -> FILE_INDEX_START..(FILE_INDEX_START + MaxIndex - 1)] :
               \A j, k \in DOMAIN f : j # k => f[j] # f[k]} : S \in SUBSET Accessions}

InverseOf(f) ==
    [i \in {IntKey(f[k]) : k \in DOMAIN f} |->
        (CHOOSE k \in DOMAIN f : f[k] = i[2])[3]]

SetMaps(a_to_i, i_to_a) ==
    /\ accession_to_index' = a_to_i
    /\ index_to_accession' = i_to_a
    /\ ret' = [op |-> "set_maps", arg |-> None, val |-> None]
    /\ UNCHANGED <<current_index, disk, first_index, saved, store, run, query, filt, binned>>

\* A new process imports the module: a fresh closure, the files still on disk.
Restart ==
    /\ current_index' = NewRegistry.current_index
    /\ accession_to_index' = NewRegistry.accession_to_index
    /\ index_to_accession' = NewRegistry.index_to_accession
    /\ first_index' = EmptyDict
    /\ ret' = [op |-> "import", arg |-> None, val |-> None]
    /\ UNCHANGED <<disk, saved, store, run, query, filt, binned>>

InitRegistry ==
    /\ current_index = NewRegistry.current_index
    /\ accession_to_index = NewRegistry.accession_to_index
    /\ index_to_accession = NewRegistry.index_to_accession
    /\ disk = EmptyDict
    /\ ret = [op |-> "import", arg |-> None, val |-> None]
    /\ first_index = EmptyDict
    /\ saved = EmptyDict

IdleTiles ==
    /\ store = <<>>
    /\ run = [status |-> "idle"]
    /\ query = [fn |-> "none"]
    /\ filt = [called |-> FALSE]
    /\ binned = [called |-> FALSE]

InitReg == InitRegistry /\ IdleTiles

NextReg ==
    \/ \E a \in Accessions : FindIndex(a)
    \/ \E i \in Indices : FindFile(i)
    \/ \E d \in Databases : SaveMaps(d)
    \/ \E d \in Databases : LoadMaps(d)
    \/ GetMaps
    \/ \E f \in ForwardMaps : SetMaps(f, InverseOf(f))
    \/ Restart

SpecReg == InitReg /\ [][NextReg]_vars

(***************************************************************************)
(* Chromosome labels.  A label is the sequence of its pieces, so that      *)
(* replace('chr', '') is the removal of the "chr" pieces: "chrX" is        *)
(* <<"chr", "X">>, "chrUn" is <<"chr", "Un">>.                             *)
(***************************************************************************)
MaxChromosome == 25

CHROMOSOME_TO_NUMBER == [k \in {"X", "Y", "M"} |->
                            IF k = "X" THEN 23 ELSE IF k = "Y" THEN 24 ELSE 25]

RECURSIVE Join(_)
Join(pieces) == IF pieces = <<>> THEN "" ELSE Head(pieces) \o Join(Tail(pieces))

\* chromosome.replace('chr', ''), then CHROMOSOME_TO_NUMBER.get(chromosome, chromosome):
\* an int for X, Y, M and the remaining text otherwise.
parse_chromosome(chromosome) ==
    LET text == Join(SelectSeq(chromosome, LAMBDA piece : piece # "chr"))
    IN  IF text \in DOMAIN CHROMOSOME_TO_NUMBER
        THEN [int |-> TRUE, n |-> CHROMOSOME_TO_NUMBER[text], text |-> ""]
        ELSE [int |-> FALSE, n |-> 0, text |-> text]

\* int(x): x itself when it is an int, the number whose decimal text x is,
\* and a ValueError for any other text.
PyIntOf(x) ==
    IF x.int THEN [ok |-> TRUE, n |-> x.n]
    ELSE IF \E n \in 0..MaxChromosome : ToString(n) = x.text
         THEN [ok |-> TRUE, n |-> CHOOSE n \in 0..MaxChromosome : ToString(n) = x.text]
         ELSE [ok |-> FALSE, n |-> 0]

\* The (chrom, start, end) triples of a bed file, unparsable chromosomes skipped.
RECURSIVE get_regions_from_bed(_)
get_regions_from_bed(bed) ==
    IF bed = <<>> THEN <<>>
    ELSE LET feature == Head(bed)
             parsed_chromosome == PyIntOf(parse_chromosome(feature.chrom))
         IN  IF ~parsed_chromosome.ok
             THEN get_regions_from_bed(Tail(bed))
             ELSE <<<<parsed_chromosome.n, feature.start, feature.end>>>>
                      \o get_regions_from_bed(Tail(bed))

(***************************************************************************)
(* The region binner.                                                      *)
(***************************************************************************)
\* Variant of range(): the stop value is included.
RECURSIVE PyRangeInclusive(_, _, _)
PyRangeInclusive(start, stop, step) ==
    IF start > stop THEN <<>>
    ELSE <<start>> \o PyRangeInclusive(start + step, stop, step)

\* range(start, stop, step) for step > 0.
RECURSIVE PyRange(_, _, _)
PyRange(start, stop, step) ==
    IF start >= stop THEN <<>>
    ELSE <<start>> \o PyRange(start + step, stop, step)

\* Variant: the end position is binned too.
get_positions_through_end(start, end, gap) == PyRangeInclusive(start, end, gap)

get_positions_for_region(start, end, gap) == PyRange(start, end, gap)

get_fill_value_for_region(filename, start, end) == <<filename, start, end>>

get_data_for_region(file_index, region, gap) ==
    LET chrom == region[1]
        start == region[2]
        end == region[3]
        fill_value == get_fill_value_for_region(file_index, start, end)
        positions == get_positions_for_region(start, end, gap)
    IN  [n \in 1..Len(positions) |-> <<chrom, positions[n], fill_value>>]

RECURSIVE FlatMapRegions(_, _, _)
FlatMapRegions(file_index, regions, gap) ==
    IF regions = <<>> THEN <<>>
    ELSE get_data_for_region(file_index, Head(regions), gap)
             \o FlatMapRegions(file_index, Tail(regions), gap)

generate_positions_from_regions(file_index, file_, gap) ==
    FlatMapRegions(file_index, get_regions_from_bed(file_), gap)

\* chroms, positions, data = zip(*cells): with no cell at all zip() yields
\* nothing and the unpacking raises ValueError before anything is written.
write_data_for_file(open_array, file_index, file_) ==
    LET cells == generate_positions_from_regions(file_index, file_, GAP)
    IN  IF cells = <<>>
        THEN [ok |-> FALSE, array |-> open_array]
        ELSE [ok |-> TRUE, array |-> open_array \o cells]

(***************************************************************************)
(* Ingestion: load(database, urls).  A url is modelled by the accession in *)
(* its last path component and the bed file it serves.                     *)
(***************************************************************************)
NumUrls == 4

MaxUrls == 2

Feature(chrom, start, end) == [chrom |-> chrom, start |-> start, end |-> end]

Catalogue ==
    << [accession |-> "ENCFF001",
        bed |-> <<Feature(<<"chr", "1">>, 5000, 7200)>>],
       [accession |-> "ENCFF002",
        bed |-> <<Feature(<<"chr", "1">>, 1, 1010), Feature(<<"chr", "1">>, 1000, 1010)>>],
       [accession |-> "ENCFF003",
        bed |-> <<Feature(<<"chr", "1">>, 0, 1000), Feature(<<"chr", "X">>, 0, 2500)>>],
       [accession |-> "ENCFF004",
        bed |-> <<Feature(<<"chr", "Un">>, 0, 100), Feature(<<"chr", "1">>, 300, 300)>>],
       [accession |-> "ENCFF005",
        bed |-> <<Feature(<<"chr", "1">>, 999, 2008), Feature(<<"chr", "1">>, 2500, 2000)>>],
       [accession |-> "ENCFF006",
        bed |-> <<Feature(<<"chr", "1">>, 0, 2500), Feature(<<"chr", "Un">>, 0, 100)>>] >>

Urls == {Catalogue[n] : n \in 1..NumUrls}

UrlLists == UNION {[1..n -> Urls] : n \in 1..MaxUrls}

\* Ingestion comes first; the query that follows sees every store it can build.
StartLoad(urls) ==
    /\ run.status = "idle"
    /\ query.fn = "none"
    /\ run' = [status |-> "running", urls |-> urls, i |-> 1]
    /\ UNCHANGED <<regVars, disk, ret, first_index, saved, store, query, filt, binned>>

\* One iteration of the loop over urls; an exception leaves load.
LoadUrl ==
    /\ run.status = "running"
    /\ LET url == run.urls[run.i]
           accession == url.accession
           r == find_index(Registry, accession)
           file_index == r.val
           w == write_data_for_file(store, file_index, url.bed)
       IN  /\ current_index' = r.current_index
           /\ accession_to_index' = r.accession_to_index
           /\ index_to_accession' = r.index_to_accession
           /\ first_index' = IF accession \in DOMAIN first_index
                             THEN first_index
                             ELSE Put(first_index, accession, r.val)
           /\ store' = w.array
           /\ run' = IF ~w.ok
                     THEN [run EXCEPT !.status = "aborted"]
                     ELSE IF run.i = Len(run.urls)
                          THEN [run EXCEPT !.status = "done"]
                          ELSE [run EXCEPT !.i = run.i + 1]
    /\ UNCHANGED <<disk, ret, saved, query, filt, binned>>

(***************************************************************************)
(* The bounded overlap filter.  A result is the record (f0, f1, f2) =      *)
(* (file index, start, end).                                               *)
(***************************************************************************)
\* Variant: strict comparisons.
query_intersects_strictly(result, start, end) ==
    (result[3] > start) /\ (result[2] < end)

query_intersects_result(result, start, end) ==
    (result[3] >= start) /\ (result[2] <= end)

\* Variant: the loop stops one match short of limit.
RECURSIVE SizingPassOneShort(_, _, _, _, _, _)
SizingPassOneShort(results, start, end, limit, length, filtered_length) ==
    IF filtered_length + 1 < limit /\ length < Len(results)
    THEN SizingPassOneShort(results, start, end, limit, length + 1,
             IF query_intersects_result(results[length + 1], start, end)
             THEN filtered_length + 1 ELSE filtered_length)
    ELSE <<length, filtered_length>>

\* The while loop: (length, filtered_length) when it ends.
RECURSIVE SizingPass(_, _, _, _, _, _)
SizingPass(results, start, end, limit, length, filtered_length) ==
    IF filtered_length < limit /\ length < Len(results)
    THEN SizingPass(results, start, end, limit, length + 1,
             IF query_intersects_result(results[length + 1], start, end)
             THEN filtered_length + 1 ELSE filtered_length)
    ELSE <<length, filtered_length>>

Uninitialized == <<-1, -1, -1>>

\* The for loop over range(length) into the buffer np.empty(filtered_length).
RECURSIVE MaterializationPass(_, _, _, _, _, _, _)
MaterializationPass(results, start, end, length, i, filtered_results, filtered_length) ==
    IF i >= length THEN filtered_results
    ELSE IF query_intersects_result(results[i + 1], start, end)
         THEN MaterializationPass(results, start, end, length, i + 1,
                  [filtered_results EXCEPT ![filtered_length + 1] = results[i + 1]],
                  filtered_length + 1)
         ELSE MaterializationPass(results, start, end, length, i + 1,
                  filtered_results, filtered_length)

\* filter_results with the number of candidates its first loop scanned.
filter_results_scan(results, start, end, limit) ==
    LET sized == SizingPass(results, start, end, limit, 0, 0)
        length == sized[1]
        buffer == [n \in 1..sized[2] |-> Uninitialized]
    IN  [length |-> length,
         out |-> MaterializationPass(results, start, end, length, 0, buffer, 0)]

filter_results(results, start, end, limit) ==
    filter_results_scan(results, start, end, limit).out

(***************************************************************************)
(* Queries.                                                                *)
(***************************************************************************)
\* pd.unique: the first occurrence of each value, in order.
RECURSIVE Unique(_, _)
Unique(seq, seen) ==
    IF seq = <<>> THEN <<>>
    ELSE IF Head(seq) \in seen THEN Unique(Tail(seq), seen)
         ELSE <<Head(seq)>> \o Unique(Tail(seq), seen \cup {Head(seq)})

pd_unique(seq) == Unique(seq, {})

\* A[chrom, lo:stop][ATTRIBUTE_NAME]: the cells of chrom with lo <= position < stop.
\* The order the array returns cells in is its own; here it is the write order.
RECURSIVE ReadSlice(_, _, _, _)
ReadSlice(array, chrom, lo, stop) ==
    IF array = <<>> THEN <<>>
    ELSE LET cell == Head(array)
         IN  (IF cell[1] = chrom /\ lo <= cell[2] /\ cell[2] < stop
              THEN <<cell[3]>> ELSE <<>>)
             \o ReadSlice(Tail(array), chrom, lo, stop)

\* Variant: the lower bound is widened by one less than GAP.
SliceStartNarrow(start) == Max(0, (start - (GAP - 1)))

\* Variant: the lower bound is not widened.
SliceStartUnwidened(start) == start

\* max(0, (start - GAP)), the lower bound of the slice.
SliceStart(start) == Max(0, (start - GAP))

read_candidates(array, chrom, start, end) ==
    pd_unique(ReadSlice(array, chrom, SliceStart(start), end + 1))

recover_file_from_result(result) ==
    <<find_file(index_to_accession, result[1]), result[2], result[3]>>

query_region(array, chrom, start, end, limit) ==
    LET results == read_candidates(array, chrom, start, end)
        filtered == filter_results(results, start, end, limit)
    IN  [n \in 1..Len(filtered) |-> recover_file_from_result(filtered[n])]

Truthy(x) == x # None /\ x # ""

get_filtered_file_results(results, start, end, limit) ==
    LET filtered == filter_results(results, start, end, limit)
        filenames == [n \in 1..Len(filtered) |-> recover_file_from_result(filtered[n])[1]]
    IN  SelectSeq(filenames, Truthy)

query_file(array, chrom, start, end, limit) ==
    LET results == read_candidates(array, chrom, start, end)
    IN  pd_unique(get_filtered_file_results(results, start, end, limit))

MaxLimit == 2

QueryChroms == {1, 23}

QueryPoints == {0, 100, 1000, 1001, 1998, 2500, 6500, 9000}

\* A query only reads: one query per behaviour reaches every outcome.
QueryRegion(chrom, start, end, limit) ==
    /\ run.status # "running"
    /\ query.fn = "none"
    /\ query' = [fn |-> "query_region", chrom |-> chrom, start |-> start,
                 end |-> end, limit |-> limit,
                 results |-> read_candidates(store, chrom, start, end),
                 out |-> query_region(store, chrom, start, end, limit)]
    /\ UNCHANGED <<regVars, disk, ret, first_index, saved, store, run, filt, binned>>

QueryFile(chrom, start, end, limit) ==
    /\ run.status # "running"
    /\ query.fn = "none"
    /\ query' = [fn |-> "query_file", chrom |-> chrom, start |-> start,
                 end |-> end, limit |-> limit,
                 results |-> read_candidates(store, chrom, start, end),
                 out |-> query_file(store, chrom, start, end, limit)]
    /\ UNCHANGED <<regVars, disk, ret, first_index, saved, store, run, filt, binned>>

InitTiles == InitRegistry /\ IdleTiles

NextTiles ==
    \/ \E urls \in UrlLists : StartLoad(urls)
    \/ LoadUrl
    \/ \E chrom \in QueryChroms, start, end \in QueryPoints, limit \in 0..MaxLimit :
          start <= end /\ QueryRegion(chrom, start, end, limit)
    \/ \E chrom \in QueryChroms, start, end \in QueryPoints, limit \in 0..MaxLimit :
          start <= end /\ QueryFile(chrom, start, end, limit)
    \/ run.status # "running" /\ query.fn = "none" /\ Restart

SpecTiles == InitTiles /\ [][NextTiles]_vars

(***************************************************************************)
(* filter_results on its own: any candidate sequence, window and limit.    *)
(***************************************************************************)
MaxCandidates == 3

FilterPayloads ==
    {<<0, 0, 1000>>, <<0, 500, 900>>, <<1, 1500, 1600>>, <<1, 2000, 3000>>, <<0, 2001, 3000>>}

FilterWindows == {<<1000, 2000>>, <<1000, 1000>>}

InitFilter ==
    /\ InitRegistry
    /\ store = <<>>
    /\ run = [status |-> "idle"]
    /\ query = [fn |-> "none"]
    /\ binned = [called |-> FALSE]
    /\ \E n \in 0..MaxCandidates :
       \E results \in [1..n -> FilterPayloads] :
       \E w \in FilterWindows :
       \E limit \in 0..MaxLimit :
          filt = [called |-> FALSE, results |-> results, start |-> w[1],
                  end |-> w[2], limit |-> limit]

FilterResults ==
    /\ ~filt.called
    /\ LET f == filter_results_scan(filt.results, filt.start, filt.end, filt.limit)
       IN  filt' = [called |-> TRUE, results |-> filt.results, start |-> filt.start,
                    end |-> filt.end, limit |-> filt.limit,
                    length |-> f.length,
                    out |-> filter_results(filt.results, filt.start, filt.end, filt.limit)]
    /\ UNCHANGED <<regVars, disk, ret, first_index, saved, store, run, query, binned>>

SpecFilter == InitFilter /\ [][FilterResults]_vars

(***************************************************************************)
(* get_data_for_region on its own: any file index and region, gap = GAP.   *)
(***************************************************************************)
MaxTile == 2

BinPoints == {k * GAP + d : k \in 0..MaxTile, d \in {0, 1, GAP - 1}}

InitBinner ==
    /\ InitRegistry
    /\ store = <<>>
    /\ run = [status |-> "idle"]
    /\ query = [fn |-> "none"]
    /\ filt = [called |-> FALSE]
    /\ \E file_index \in Indices :
       \E chrom \in {1, 23} :
       \E start, end \in BinPoints :
          binned = [called |-> FALSE, file_index |-> file_index,
                    region |-> <<chrom, start, end>>]

GetDataForRegion ==
    /\ ~binned.called
    /\ binned' = [called |-> TRUE, file_index |-> binned.file_index,
                  region |-> binned.region,
                  out |-> get_data_for_region(binned.file_index, binned.region, GAP)]
    /\ UNCHANGED <<regVars, disk, ret, first_index, saved, store, run, query, filt>>

SpecBinner == InitBinner /\ [][GetDataForRegion]_vars

(***************************************************************************)
(* A resumed ingestion run: find_index, save_maps, then a new process that *)
(* may load_maps and go on with find_index.  No set_maps.                  *)
(***************************************************************************)
NextResume ==
    \/ \E a \in Accessions : FindIndex(a)
    \/ \E i \in Indices : FindFile(i)
    \/ \E d \in Databases : SaveMaps(d)
    \/ \E d \in Databases : LoadMaps(d)
    \/ Restart

SpecResume == InitReg /\ [][NextResume]_vars

(***************************************************************************)
(* Registry claims.                                                        *)
(***************************************************************************)

\* C1: after any sequence of registry operations the forward and the reverse
\* map are exact mutual inverses: forward[a] = i iff reverse[i] = a.
C1_MutualInverses ==
    /\ \A k \in DOMAIN accession_to_index :
          /\ IntKey(accession_to_index[k]) \in DOMAIN index_to_accession
          /\ index_to_accession[IntKey(accession_to_index[k])] = k[3]
    /\ \A j \in DOMAIN index_to_accession :
          /\ j[1] = "int"
          /\ StrKey(index_to_accession[j]) \in DOMAIN accession_to_index
          /\ accession_to_index[StrKey(index_to_accession[j])] = j[2]

\* C2: an index assigned by find_index is never reused, also in a resumed run
\* that reloads a snapshot: no two distinct accessions hold the same index.
C2_NoSharedIndex ==
    \A j, k \in DOMAIN accession_to_index :
        j # k => accession_to_index[j] # accession_to_index[k]

\* C3: every find_index(a) returns the index the first call for a returned,
\* and find_file of that index is a.
C3_IdempotentAndResolves ==
    ret.op = "find_index" =>
        /\ ret.val = first_index[ret.arg]
        /\ find_file(index_to_accession, ret.val) = ret.arg

\* C9: after save_maps(name) and a later load_maps(name) the in-memory pair
\* equals the pair that was saved, every reverse key is an integer, and
\* find_file answers as it did at the save.
C9_SaveLoadRoundTrip ==
    (ret.op = "load_maps" /\ ret.val = None) =>
        /\ <<accession_to_index, index_to_accession>> = saved[ret.arg]
        /\ \A k \in DOMAIN index_to_accession : k[1] = "int"
        /\ \A i \in Indices :
              find_file(index_to_accession, i) = find_file(saved[ret.arg][2], i)

\* C9 witness: a load_maps has brought back a snapshot with two accessions,
\* and index FILE_INDEX_START + 1 resolves.
C9_Witness ==
    /\ ret.op = "load_maps" /\ ret.val = None
    /\ Cardinality(DOMAIN accession_to_index) >= 2
    /\ find_file(index_to_accession, FILE_INDEX_START + 1) # None

(***************************************************************************)
(* Ingestion, binner, filter and query claims.                             *)
(***************************************************************************)
Range(seq) == {seq[n] : n \in 1..Len(seq)}

\* A true match: the original bounds overlap the closed window.
Overlaps(result, qstart, qend) == result[3] >= qstart /\ result[2] <= qend

TrueMatches(results, qstart, qend) ==
    SelectSeq(results, LAMBDA result : Overlaps(result, qstart, qend))

\* The intervals ingested on a chromosome, as (index, start, end).
IngestedOn(chrom) == {cell[3] : cell \in {c \in Range(store) : c[1] = chrom}}

\* C4: an ingestion run never aborts because of records that are skipped or
\* degenerate, also when a source yields no coordinate at all.
C4_RunNeverAborts == run.status # "aborted"

\* C5: for query_region and query_file, a returned list shorter than limit
\* means the candidate set holds fewer than limit true matches.
C5_ShortMeansFewMatches ==
    (query.fn \in {"query_region", "query_file"} /\ Len(query.out) < query.limit) =>
        Len(TrueMatches(query.results, query.start, query.end)) < query.limit

\* The accessions find_file knows among the first n true matches.
KnownAccessions(results, qstart, qend, n) ==
    LET m == TrueMatches(results, qstart, qend)
    IN  {find_file(index_to_accession, m[k][1]) : k \in 1..Min(n, Len(m))} \ {None}

\* C5 (amended): for query_region a returned list shorter than limit means
\* fewer than limit true matches; for query_file it means that the first limit
\* true matches resolve to fewer than limit distinct known accessions.
C5_ShortMeansFewMatchesOrAccessions ==
    /\ (query.fn = "query_region" /\ Len(query.out) < query.limit) =>
          Len(TrueMatches(query.results, query.start, query.end)) < query.limit
    /\ (query.fn = "query_file" /\ Len(query.out) < query.limit) =>
          Cardinality(KnownAccessions(query.results, query.start, query.end,
                                      query.limit)) < query.limit

\* C5 witness: query_region returned some results, fewer than limit.
C5_Witness ==
    /\ query.fn = "query_region"
    /\ 0 < Len(query.out) /\ Len(query.out) < query.limit

\* A single pass into a buffer capped at limit.
RECURSIVE CappedPass(_, _, _, _, _)
CappedPass(results, qstart, qend, limit, buffer) ==
    IF results = <<>> \/ Len(buffer) >= limit THEN buffer
    ELSE CappedPass(Tail(results), qstart, qend, limit,
             IF Overlaps(Head(results), qstart, qend)
             THEN Append(buffer, Head(results)) ELSE buffer)

\* C6: filter_results returns the first min(limit, total true matches) true
\* matches in arrival order, as a single capped pass would; with limit = 0
\* the output is empty and nothing is scanned.
C6_FilterIsBoundedPrefix ==
    filt.called =>
        LET m == TrueMatches(filt.results, filt.start, filt.end)
        IN  /\ filt.out = SubSeq(m, 1, Min(filt.limit, Len(m)))
            /\ filt.out = CappedPass(filt.results, filt.start, filt.end, filt.limit, <<>>)
            /\ filt.limit = 0 => (filt.out = <<>> /\ filt.length = 0)

\* C6 witness: more true matches than limit, a non-match ahead of a match,
\* and the scan stopped before the end.
C6_Witness ==
    /\ filt.called
    /\ filt.limit > 0
    /\ Len(TrueMatches(filt.results, filt.start, filt.end)) > filt.limit
    /\ Len(filt.out) = filt.limit
    /\ ~Overlaps(filt.results[1], filt.start, filt.end)
    /\ filt.length < Len(filt.results)

\* C7: get_data_for_region emits exactly (chrom, p, (s, start, end)) for the
\* p = start + k*GAP below end, nothing iff start >= end, and every payload
\* carries the original start and end.
C7_BinsAreGapSteps ==
    binned.called =>
        LET chrom == binned.region[1]
            start == binned.region[2]
            end == binned.region[3]
            steps == IF end > start THEN (end - start) \div GAP + 1 ELSE 0
            positions == {p \in {start + k * GAP : k \in 0..steps} : p < end}
        IN  /\ Range(binned.out) =
                  {<<chrom, p, <<binned.file_index, start, end>>>> : p \in positions}
            /\ Len(binned.out) = Cardinality(positions)
            /\ (binned.out = <<>>) <=> (start >= end)
            /\ \A n \in 1..Len(binned.out) :
                  binned.out[n][3] = <<binned.file_index, start, end>>

\* C7 witness: a region that is not a multiple of GAP long gave several bins.
C7_Witness ==
    /\ binned.called
    /\ Len(binned.out) >= 3
    /\ (binned.region[3] - binned.region[2]) % GAP # 0
    /\ binned.out[3][2] = binned.region[2] + 2 * GAP

\* The interval of the widening-necessity example for the last query.
NecessityInterval(p) ==
    p[2] = query.start - GAP + 1 /\ p[3] = query.start + 10

\* What a read over the unwidened range [qstart, qend] returns.
UnwidenedRead == Range(ReadSlice(store, query.chrom, query.start, query.end + 1))

\* C8: an ingested interval with start = qstart - GAP + 1 and end = qstart + 10
\* is found by the widened read and missed by the unwidened one.
C8_FoundWidenedMissedUnwidened ==
    query.fn # "none" =>
        \A p \in IngestedOn(query.chrom) :
            NecessityInterval(p) =>
                (p \in Range(query.results) /\ p \notin UnwidenedRead)

\* C8 (amended): such an interval is found by the widened read; the unwidened
\* read misses it exactly when qend = qstart, since its second coordinate,
\* qstart + 1, lies in every wider window.
C8_FoundWidenedMissedOnlyAtPoint ==
    query.fn # "none" =>
        \A p \in IngestedOn(query.chrom) :
            NecessityInterval(p) =>
                /\ p \in Range(query.results)
                /\ (p \notin UnwidenedRead) <=> (query.end = query.start)

\* C8 witness: a point query found such an interval that an unwidened read
\* would have missed.
C8_Witness ==
    /\ query.fn # "none"
    /\ query.end = query.start
    /\ \E p \in IngestedOn(query.chrom) :
          NecessityInterval(p) /\ p \in Range(query.results) /\ p \notin UnwidenedRead

\* The stored positions of interval p on chrom.
PositionsOf(chrom, p) == {c[2] : c \in {c \in Range(store) : c[1] = chrom /\ c[3] = p}}

\* C10: every ingested interval with 0 <= start < end on the queried
\* chromosome that overlaps the window has a stored coordinate in
\* [max(0, qstart - GAP), qend], is a candidate, and is returned by
\* query_region when limit is at least the number of true matches.
C10_WideningSuffices ==
    query.fn = "query_region" =>
        \A p \in IngestedOn(query.chrom) :
            (0 <= p[2] /\ p[2] < p[3] /\ Overlaps(p, query.start, query.end)) =>
                /\ \E pos \in PositionsOf(query.chrom, p) :
                      SliceStart(query.start) <= pos /\ pos <= query.end
                /\ p \in Range(query.results)
                /\ query.limit >= Len(TrueMatches(query.results, query.start, query.end))
                      => recover_file_from_result(p) \in Range(query.out)

\* C10 witness: query_region returned an overlapping interval none of whose
\* coordinates lies in the range a margin of GAP - 1 would read.
C10_Witness ==
    /\ query.fn = "query_region"
    /\ \E p \in IngestedOn(query.chrom) :
          /\ Overlaps(p, query.start, query.end)
          /\ recover_file_from_result(p) \in Range(query.out)
          /\ \A pos \in PositionsOf(query.chrom, p) :
                ~(Max(0, query.start - (GAP - 1)) <= pos /\ pos <= query.end)

=============================================================================
